---- MODULE Spec2Model ----
(***************************************************************************)
(* The Intcode machine of jonathf/adventofcode, in its two revisions:      *)
(*   - 2019/09/run.py (identical in 2019/11/run.py): IntProgram with       *)
(*     growable memory, relative base and modes read through get_indices;  *)
(*   - 2019/07/run.py: IntProgram with a fixed list as memory, modes read  *)
(*     through get_value, and run_amplifier, which wires five engines in   *)
(*     a ring of shared lists.                                             *)
(* One step of the model is one call of run (the append of the supplied    *)
(* value) or one iteration of run's `while True` loop; the step that ends  *)
(* a call also does what the caller does with the returned value.          *)
(* Memory addresses are 0-based as in the source: address a is element     *)
(* a+1 of the sequence.  None is <<>>, an integer v returned by run is     *)
(* <<v>>.                                                                  *)
(***************************************************************************)
EXTENDS Integers, Sequences, FiniteSets, TLC

VARIABLES
    scenario,   \* which caller drives the engines: "direct", "doctest", ...
    code,       \* the program list the caller passes to IntProgram(...)
    programs,   \* the engines: <<[rev, program, index, offset, inputs, outputs]>>,
                \* inputs/outputs being the numbers of the lists they refer to
    links,      \* the lists used as input and output channels
    active,     \* the engine whose run call is in its loop, 0 when none is
    steps,      \* loop iterations run by the call in progress
    result,     \* how the last finished run call ended
    log,        \* memory accesses made by the last loop iteration, in order
    produced,   \* per engine, the values its own output instructions appended
    consumed,   \* per engine, the values its own input instructions took
    halted,     \* per engine, whether it has executed opcode 99
    status,     \* per engine, how its last finished run call ended
    driver,     \* the caller's own state
    supplied    \* the parameter `value` of the run call in progress

vars == <<active, steps, scenario, code, programs, links, result, log,
          produced, consumed, halted, status, driver, supplied>>

None == <<>>

\* ------------------------------------------------------------------------
\* Bounds of the model
\* ------------------------------------------------------------------------
MaxSteps == 90     \* loop iterations per run call
MaxCalls == 2      \* run calls made by the direct caller
MaxFeed == 2       \* length of the input sequence of the resume scenario
MaxRounds == 5     \* signal rounds of run_amplifier
MaxAccesses == 2   \* subscript operations made by a caller on the memory
MaxAddress == 4    \* largest address such a caller uses

\* ------------------------------------------------------------------------
\* Formatting and decoding of an instruction word
\* ------------------------------------------------------------------------
DIGITS == <<"0", "1", "2", "3", "4", "5", "6", "7", "8", "9">>

RECURSIVE Decimal(_)
\* the decimal digits of n >= 0, most significant first
Decimal(n) ==
    IF n < 10 THEN <<DIGITS[n + 1]>>
    ELSE Append(Decimal(n \div 10), DIGITS[(n % 10) + 1])

\* f"{w:0<width>d}": zero padding to `width` characters, the sign included
Format(w, width) ==
    LET digits == Decimal(IF w < 0 THEN -w ELSE w)
        sign == IF w < 0 THEN <<"-">> ELSE <<>>
        room == width - Len(sign) - Len(digits)
        fill == IF room > 0 THEN room ELSE 0
    IN sign \o [k \in 1..fill |-> "0"] \o digits

DigitValue(c) == CHOOSE d \in 0..9 : DIGITS[d + 1] = c

\* mode, opcode = instruction[:-2], int(instruction[-2:])
Split(instruction) ==
    [instruction |-> instruction,
     mode |-> SubSeq(instruction, 1, Len(instruction) - 2),
     opcode |-> 10 * DigitValue(instruction[Len(instruction) - 1])
                + DigitValue(instruction[Len(instruction)])]

\* instruction = f"{word:0<width>d}", split into mode and opcode
Decode(w, width) == Split(Format(w, width))

\* mutant of ZipReversed: zip(modes, indices), the mode string not reversed
ZipReversed_Forward(modes, indices) ==
    LET n == IF Len(modes) < Len(indices) THEN Len(modes) ELSE Len(indices)
    IN [k \in 1..n |-> <<modes[k], indices[k]>>]

\* zip(reversed(modes), indices)
ZipReversed(modes, indices) ==
    LET n == IF Len(modes) < Len(indices) THEN Len(modes) ELSE Len(indices)
    IN [k \in 1..n |-> <<modes[Len(modes) + 1 - k], indices[k]>>]

\* ------------------------------------------------------------------------
\* Python's int has no width.  A product is computed digit by digit; one
\* that the 32-bit integers of TLC cannot hold is carried as its sign and
\* its decimal digits, [negative, digits], most significant digit first.
\* ------------------------------------------------------------------------
RECURSIVE Places(_)
\* the decimal digits of n >= 0, least significant first (none for 0)
Places(n) == IF n = 0 THEN <<>> ELSE <<n % 10>> \o Places(n \div 10)

RECURSIVE Scaled(_, _, _)
\* the digits of xs * d + carry, for a digit d
Scaled(xs, d, carry) ==
    IF xs = <<>> THEN Places(carry)
    ELSE <<(Head(xs) * d + carry) % 10>>
             \o Scaled(Tail(xs), d, (Head(xs) * d + carry) \div 10)

RECURSIVE Summed(_, _, _)
\* the digits of xs + ys + carry
Summed(xs, ys, carry) ==
    IF xs = <<>> THEN IF ys = <<>> THEN Places(carry) ELSE Summed(ys, <<carry>>, 0)
    ELSE IF ys = <<>> THEN IF carry = 0 THEN xs ELSE Summed(xs, <<carry>>, 0)
    ELSE <<(Head(xs) + Head(ys) + carry) % 10>>
             \o Summed(Tail(xs), Tail(ys), (Head(xs) + Head(ys) + carry) \div 10)

RECURSIVE Times(_, _)
\* the digits of xs * ys
Times(xs, ys) ==
    IF ys = <<>> THEN <<>>
    ELSE Summed(Scaled(xs, Head(ys), 0), <<0>> \o Times(xs, Tail(ys)), 0)

RECURSIVE Trimmed(_)
\* without the zeros at the most significant end
Trimmed(ds) ==
    IF ds # <<>> /\ ds[Len(ds)] = 0 THEN Trimmed(SubSeq(ds, 1, Len(ds) - 1))
    ELSE ds

RECURSIVE AtMost(_, _)
\* xs <= ys for digit sequences of one length
AtMost(xs, ys) ==
    \/ xs = <<>>
    \/ xs[Len(xs)] < ys[Len(ys)]
    \/ /\ xs[Len(xs)] = ys[Len(ys)]
       /\ AtMost(SubSeq(xs, 1, Len(xs) - 1), SubSeq(ys, 1, Len(ys) - 1))

RECURSIVE Numeral(_)
\* the number with the digits ds
Numeral(ds) == IF ds = <<>> THEN 0 ELSE Head(ds) + 10 * Numeral(Tail(ds))

\* the number with the digits ds is one the 32-bit integers of TLC hold
Fits(ds) ==
    \/ Len(ds) < 10
    \/ Len(ds) = 10 /\ AtMost(ds, Places(2147483647))

\* mutant of Exact: a value of more than 15 decimal digits keeps its low 15
Exact_Wrapped(negative, ds) ==
    IF Fits(ds) THEN IF negative THEN -Numeral(ds) ELSE Numeral(ds)
    ELSE [negative |-> negative,
          digits |-> [k \in 1..(IF Len(ds) < 15 THEN Len(ds) ELSE 15) |->
                         ds[(IF Len(ds) < 15 THEN Len(ds) ELSE 15) + 1 - k]]]

\* the int with this sign and these digits, whatever its size
Exact(negative, ds) ==
    IF Fits(ds) THEN IF negative THEN -Numeral(ds) ELSE Numeral(ds)
    ELSE [negative |-> negative,
          digits |-> [k \in 1..Len(ds) |-> ds[Len(ds) + 1 - k]]]

\* a * b of Python ints
Product(a, b) ==
    Exact((a < 0) # (b < 0),
          Trimmed(Times(Places(IF a < 0 THEN -a ELSE a),
                        Places(IF b < 0 THEN -b ELSE b))))

\* OPERATORS = {1: add, 2: mul, 7: lt, 8: eq}, with the int(...) of the result
OPERATORS == {1, 2, 7, 8}

\* mutant of Operator: opcode 7 as `le` instead of `lt`
Operator_Le(opcode, a, b) ==
    CASE opcode = 1 -> a + b
      [] opcode = 2 -> Product(a, b)
      [] opcode = 7 -> IF a <= b THEN 1 ELSE 0
      [] opcode = 8 -> IF a = b THEN 1 ELSE 0

Operator(opcode, a, b) ==
    CASE opcode = 1 -> a + b
      [] opcode = 2 -> Product(a, b)
      [] opcode = 7 -> IF a < b THEN 1 ELSE 0
      [] opcode = 8 -> IF a = b THEN 1 ELSE 0

\* ------------------------------------------------------------------------
\* Memory.  A memory operation takes and returns a record
\*   [program, exc, log, value]:
\* the list, the exception raised so far ("" for none), the accesses made
\* so far and the value read last.  After an exception nothing more happens.
\* ------------------------------------------------------------------------
Mem(program) == [program |-> program, exc |-> "", log |-> <<>>, value |-> 0]

Access(op, index, ok, before, after, value) ==
    [op |-> op, index |-> index, ok |-> ok, before |-> before,
     after |-> after, value |-> value]

\* mutant of Extend: [0]*(index+1), the present length not subtracted
Extend_TooMany(program, index) ==
    IF Len(program) <= index
    THEN program \o [k \in 1..(index + 1) |-> 0]
    ELSE program

\* self.program.extend([0]*(index-len(self.program)+1)) when len <= index
Extend(program, index) ==
    IF Len(program) <= index
    THEN program \o [k \in 1..(index - Len(program) + 1) |-> 0]
    ELSE program

\* IntProgram.__getitem__ of 2019/09
getitem(m, index) ==
    IF m.exc # "" THEN m
    ELSE IF ~(index >= 0)
    THEN [m EXCEPT !.exc = "AssertionError",
                   !.log = Append(@, Access("get", index, FALSE, m.program, m.program, 0))]
    ELSE LET p == Extend(m.program, index)
         IN [program |-> p, exc |-> "",
             log |-> Append(m.log, Access("get", index, TRUE, m.program, p, p[index + 1])),
             value |-> p[index + 1]]

\* IntProgram.__setitem__ of 2019/09
setitem(m, index, value) ==
    IF m.exc # "" THEN m
    ELSE IF ~(index >= 0)
    THEN [m EXCEPT !.exc = "AssertionError",
                   !.log = Append(@, Access("set", index, FALSE, m.program, m.program, value))]
    ELSE LET p == [Extend(m.program, index) EXCEPT ![index + 1] = value]
         IN [program |-> p, exc |-> "",
             log |-> Append(m.log, Access("set", index, TRUE, m.program, p, value)),
             value |-> m.value]

\* The cell a Python list subscript lst[index] refers to: a negative index
\* counts from the end; -1 stands for "list index out of range".
ListCell(program, index) ==
    IF index >= 0 /\ index < Len(program) THEN index
    ELSE IF index < 0 /\ index >= -Len(program) THEN index + Len(program)
    ELSE -1

\* self.program[index] of 2019/07, read
listget(m, index) ==
    IF m.exc # "" THEN m
    ELSE LET cell == ListCell(m.program, index)
         IN IF cell = -1
            THEN [m EXCEPT !.exc = "IndexError",
                           !.log = Append(@, Access("get", index, FALSE, m.program, m.program, 0))]
            ELSE [m EXCEPT !.value = m.program[cell + 1],
                           !.log = Append(@, Access("get", index, TRUE, m.program, m.program,
                                                    m.program[cell + 1]))]

\* self.program[index] = value of 2019/07
listset(m, index, value) ==
    IF m.exc # "" THEN m
    ELSE LET cell == ListCell(m.program, index)
         IN IF cell = -1
            THEN [m EXCEPT !.exc = "IndexError",
                           !.log = Append(@, Access("set", index, FALSE, m.program, m.program, value))]
            ELSE LET p == [m.program EXCEPT ![cell + 1] = value]
                 IN [m EXCEPT !.program = p,
                              !.log = Append(@, Access("set", index, TRUE, m.program, p, value))]

\* ------------------------------------------------------------------------
\* One iteration of the loop of IntProgram.run.  The result says what the
\* engine and its two lists are afterwards and how the loop goes on:
\*   ctl = "continue"  next iteration
\*         "suspend"   return None (input instruction, no input)
\*         "halt"      break, then return self.outputs[-1]; exc is
\*                     "IndexError" when that subscript fails
\*         "raise"     the exception exc leaves run
\* An operator named as a past participle continues the statement of the
\* operator before it with the value that one has computed.
\* ------------------------------------------------------------------------
Outcome(m, index, offset, inp, out, ctl, ret, exc) ==
    [program |-> m.program, index |-> index, offset |-> offset,
     inp |-> inp, out |-> out, ctl |-> ctl, ret |-> ret, exc |-> exc,
     log |-> m.log]

\* an exception raised by a memory access leaves run; inp is the input list
\* as it is by then
Raised(m, e, inp, out) ==
    Outcome(m, e.index, e.offset, inp, out, "raise", None, m.exc)

\* the instruction is done unless a memory access has raised: the registers
\* get their new values and `emitted` is appended to the outputs
Continue(m, e, index, offset, inp, out, emitted) ==
    IF m.exc # "" THEN Raised(m, e, inp, out)
    ELSE Outcome(m, index, offset, inp, out \o emitted, "continue", None, "")

\* mutant of NoInput: the index register moves past the input instruction
NoInput_Advance(m, e, inp, out) ==
    Outcome(m, e.index + 2, e.offset, inp, out, "suspend", None, "")

\* if not self.inputs: return None
NoInput(m, e, inp, out) ==
    Outcome(m, e.index, e.offset, inp, out, "suspend", None, "")

\* mutant of Terminate: None instead of the failing subscript
Terminate_NoneIfEmpty(m, e, inp, out) ==
    IF out = <<>>
    THEN Outcome(m, e.index, e.offset, inp, out, "halt", None, "")
    ELSE Outcome(m, e.index, e.offset, inp, out, "halt", <<out[Len(out)]>>, "")

\* break, then the statements after the loop:
\* logger.warning(..., self.outputs[-1]); return self.outputs[-1]
Terminate(m, e, inp, out) ==
    IF out = <<>>
    THEN Outcome(m, e.index, e.offset, inp, out, "halt", None, "IndexError")
    ELSE Outcome(m, e.index, e.offset, inp, out, "halt", <<out[Len(out)]>>, "")

\* mutant of Unrecognized: the word is skipped
Unrecognized_Skip(m, e, inp, out) ==
    Outcome(m, e.index + 1, e.offset, inp, out, "continue", None, "")

\* raise ValueError(f"unrecognized instruction: {instruction}")
Unrecognized(m, e, inp, out) ==
    Outcome(m, e.index, e.offset, inp, out, "raise", None, "ValueError")

\* the value read by the access made `back` accesses before the last one
ValueRead(m, back) == m.log[Len(m.log) - back].value

\* get_indices, lines 174-182: the address of one operand, left in .value
Resolved(m, offset) == IF m.exc # "" THEN m ELSE [m EXCEPT !.value = @ + offset]

resolve(m, offset, mode, index) ==
    IF mode = "0" THEN getitem(m, index)
    ELSE IF mode = "2" THEN Resolved(getitem(m, index), offset)
    ELSE [m EXCEPT !.value = index]

RECURSIVE get_indices_loop(_, _, _, _, _)
\* get_indices, lines 184-185: output.append(index) and
\* logger.warning("  referencing value: %d", self[index])
Referenced(m, offset, pairs, k, output) ==
    get_indices_loop(getitem(m, m.value), offset, pairs, k + 1, Append(output, m.value))

\* the for loop of get_indices: pairs[k] is (mode, index)
get_indices_loop(m, offset, pairs, k, output) ==
    IF k > Len(pairs) \/ m.exc # "" THEN [m |-> m, output |-> output]
    ELSE Referenced(resolve(m, offset, pairs[k][1], pairs[k][2]), offset, pairs, k, output)

\* IntProgram.get_indices of 2019/09: the addresses of the operands
get_indices(m, offset, modes, indices) ==
    get_indices_loop(m, offset, ZipReversed(modes, indices), 1, <<>>)

\* mutant of Computed9: operator(self[verb], self[noun])
Computed9_Swapped(m, output, opcode) ==
    setitem(m, output, Operator(opcode, ValueRead(m, 0), ValueRead(m, 1)))

\* self[output] = value, with value = int(operator(self[noun], self[verb]))
Computed9(m, output, opcode) ==
    setitem(m, output, Operator(opcode, ValueRead(m, 1), ValueRead(m, 0)))

Operated9(gi, e, inp, out, opcode) ==
    Continue(Computed9(getitem(getitem(gi.m, gi.output[1]), gi.output[2]),
                       gi.output[3], opcode),
             e, e.index + 4, e.offset, inp, out, <<>>)

\* opcode in OPERATORS (2019/09): self[output] = operator(self[noun], self[verb])
Operate9(m0, e, inp, out, opcode, mode) ==
    Operated9(get_indices(m0, e.offset, mode, <<e.index + 1, e.index + 2, e.index + 3>>),
              e, inp, out, opcode)

Inputted9(gi, e, inp, out) ==
    Continue(setitem(gi.m, gi.output[1], Head(inp)),
             e, e.index + 2, e.offset, Tail(inp), out, <<>>)

\* opcode 3 (2019/09) with input: the right-hand side self.inputs.pop(0) is
\* evaluated before the target self[self.get_indices(mode, self.index+1)],
\* so the value is popped also when the target raises
Input9(m0, e, inp, out, mode) ==
    Inputted9(get_indices(m0, e.offset, mode, <<e.index + 1>>), e, inp, out)

\* mutant of Appended: self.outputs.insert(0, output)
Appended_Front(m, e, inp, out) ==
    IF m.exc # "" THEN Raised(m, e, inp, out)
    ELSE Outcome(m, e.index + 2, e.offset, inp, <<m.value>> \o out, "continue", None, "")

\* self.outputs.append(output); self.index += 2
Appended(m, e, inp, out) ==
    Continue(m, e, e.index + 2, e.offset, inp, out, <<m.value>>)

Outputted9(gi, e, inp, out) == Appended(getitem(gi.m, gi.output[1]), e, inp, out)

\* opcode 4 (2019/09): output = self[self.get_indices(mode, self.index+1)]
Output9(m0, e, inp, out, mode) ==
    Outputted9(get_indices(m0, e.offset, mode, <<e.index + 1>>), e, inp, out)

\* self.index = <the value read last>
Landed(m, e, inp, out) == Continue(m, e, m.value, e.offset, inp, out, <<>>)

\* mutant of Branched9: `if bool(self[condition]):`, opcode 6 taken as 5
Branched9_IfTrue(m, new_index, e, inp, out, opcode) ==
    IF m.exc = "" /\ m.value # 0
    THEN Landed(getitem(m, new_index), e, inp, out)
    ELSE Continue(m, e, e.index + 3, e.offset, inp, out, <<>>)

\* if bool(self[condition]) == (opcode == 5): self.index = self[new_index]
\* else: self.index = self.index+3
Branched9(m, new_index, e, inp, out, opcode) ==
    IF m.exc = "" /\ ((m.value # 0) = (opcode = 5))
    THEN Landed(getitem(m, new_index), e, inp, out)
    ELSE Continue(m, e, e.index + 3, e.offset, inp, out, <<>>)

Jumped9(gi, e, inp, out, opcode) ==
    Branched9(getitem(gi.m, gi.output[1]), gi.output[2], e, inp, out, opcode)

\* opcode 5 or 6 (2019/09)
Jump9(m0, e, inp, out, opcode, mode) ==
    Jumped9(get_indices(m0, e.offset, mode, <<e.index + 1, e.index + 2>>),
            e, inp, out, opcode)

\* mutant of Adjusted9: self.offset = value instead of self.offset += value
Adjusted9_Assign(m, e, inp, out) ==
    Continue(m, e, e.index + 2, m.value, inp, out, <<>>)

\* self.offset += value; self.index += 2
Adjusted9(m, e, inp, out) ==
    Continue(m, e, e.index + 2, e.offset + m.value, inp, out, <<>>)

Offsetted9(gi, e, inp, out) == Adjusted9(getitem(gi.m, gi.output[1]), e, inp, out)

\* opcode 9 (2019/09): value = self[self.get_indices(mode, self.index+1)]
Offset9(m0, e, inp, out, mode) ==
    Offsetted9(get_indices(m0, e.offset, mode, <<e.index + 1>>), e, inp, out)

\* the if/elif chain of run (2019/09) on the decoded instruction d
Execute9(m0, d, e, inp, out) ==
    IF d.opcode \in OPERATORS THEN Operate9(m0, e, inp, out, d.opcode, d.mode)
    ELSE IF d.opcode = 3 THEN
        IF inp = <<>> THEN NoInput(m0, e, inp, out)
        ELSE Input9(m0, e, inp, out, d.mode)
    ELSE IF d.opcode = 4 THEN Output9(m0, e, inp, out, d.mode)
    ELSE IF d.opcode \in {5, 6} THEN Jump9(m0, e, inp, out, d.opcode, d.mode)
    ELSE IF d.opcode = 9 THEN Offset9(m0, e, inp, out, d.mode)
    ELSE IF d.opcode = 99 THEN Terminate(m0, e, inp, out)
    ELSE Unrecognized(m0, e, inp, out)

\* instruction = f"{self[self.index]:05d}", m0 being the fetch self[self.index]
Fetched9(m0, e, inp, out) ==
    IF m0.exc # "" THEN Raised(m0, e, inp, out)
    ELSE Execute9(m0, Decode(m0.value, 5), e, inp, out)

\* IntProgram.run of 2019/09, one iteration of `while True`
Step9(e, inp, out) == Fetched9(getitem(Mem(e.program), e.index), e, inp, out)

\* self.program[self.program[index]]
Dereferenced(m) == listget(m, m.value)

\* get_value: self.program[index] if mode == "1" else
\* self.program[self.program[index]]
operand(m, mode, index) ==
    IF mode = "1" THEN listget(m, index) ELSE Dereferenced(listget(m, index))

RECURSIVE get_value_loop(_, _, _, _)
Collected(m, pairs, k, output) ==
    get_value_loop(m, pairs, k + 1, Append(output, m.value))

\* the list comprehension of get_value: pairs[k] is (mode, index)
get_value_loop(m, pairs, k, output) ==
    IF k > Len(pairs) \/ m.exc # "" THEN [m |-> m, output |-> output]
    ELSE Collected(operand(m, pairs[k][1], pairs[k][2]), pairs, k, output)

\* IntProgram.get_value of 2019/07: the values of the operands
get_value(m, modes, indices) ==
    get_value_loop(m, ZipReversed(modes, indices), 1, <<>>)

\* self.program[<the value read last>] = value
Stored7(m, value, e, index, inp, out) ==
    Continue(listset(m, m.value, value), e, index, e.offset, inp, out, <<>>)

Operated7(gv, e, inp, out, opcode) ==
    Stored7(listget(gv.m, e.index + 3), Operator(opcode, gv.output[1], gv.output[2]),
            e, e.index + 4, inp, out)

\* opcode in OPERATORS (2019/07):
\* self.program[self.program[self.index+3]] = int(operator(noun, verb))
Operate7(m0, e, inp, out, opcode, mode) ==
    Operated7(get_value(m0, mode, <<e.index + 1, e.index + 2>>), e, inp, out, opcode)

\* mutant of Input7: self.inputs[0] instead of self.inputs.pop(0)
Input7_Peek(m0, e, inp, out) ==
    Stored7(listget(m0, e.index + 1), Head(inp), e, e.index + 2, inp, out)

\* opcode 3 (2019/07) with input:
\* self.program[self.program[self.index+1]] = self.inputs.pop(0)
Input7(m0, e, inp, out) ==
    Stored7(listget(m0, e.index + 1), Head(inp), e, e.index + 2, Tail(inp), out)

Outputted7(gv, e, inp, out) ==
    Continue(gv.m, e, e.index + 2, e.offset, inp, out, <<gv.output[1]>>)

\* opcode 4 (2019/07): self.outputs.append(self.get_value(mode, self.index+1))
Output7(m0, e, inp, out, mode) ==
    Outputted7(get_value(m0, mode, <<e.index + 1>>), e, inp, out)

Jumped7(gv, e, inp, out, opcode) ==
    Continue(gv.m, e,
             IF (gv.output[1] # 0) = (opcode = 5) THEN gv.output[2] ELSE e.index + 3,
             e.offset, inp, out, <<>>)

\* opcode 5 or 6 (2019/07)
Jump7(m0, e, inp, out, opcode, mode) ==
    Jumped7(get_value(m0, mode, <<e.index + 1, e.index + 2>>), e, inp, out, opcode)

\* the if/elif chain of run (2019/07) on the decoded instruction d
Execute7(m0, d, e, inp, out) ==
    IF d.opcode \in OPERATORS THEN Operate7(m0, e, inp, out, d.opcode, d.mode)
    ELSE IF d.opcode = 3 THEN
        IF inp = <<>> THEN NoInput(m0, e, inp, out)
        ELSE Input7(m0, e, inp, out)
    ELSE IF d.opcode = 4 THEN Output7(m0, e, inp, out, d.mode)
    ELSE IF d.opcode \in {5, 6} THEN Jump7(m0, e, inp, out, d.opcode, d.mode)
    ELSE IF d.opcode = 99 THEN Terminate(m0, e, inp, out)
    ELSE Unrecognized(m0, e, inp, out)

\* instruction = f"{self.program[self.index]:04d}"
Fetched7(m0, e, inp, out) ==
    IF m0.exc # "" THEN Raised(m0, e, inp, out)
    ELSE Execute7(m0, Decode(m0.value, 4), e, inp, out)

\* IntProgram.run of 2019/07, one iteration of `while True`
Step7(e, inp, out) == Fetched7(listget(Mem(e.program), e.index), e, inp, out)

\* the loop body of the engine's revision
Step(e, inp, out) == IF e.rev = 9 THEN Step9(e, inp, out) ELSE Step7(e, inp, out)

\* ------------------------------------------------------------------------
\* Programs and inputs the callers use
\* ------------------------------------------------------------------------
\* values a caller passes to run: those of the doctests (-1, 0, 1, 7, 8, 9)
\* and of part1 and part2 (1, 2)
InputValues == {-1, 0, 1, 2, 7, 8, 9}

\* literals of the programs made of output instructions only
OutputLiterals == {-1, 0, 7}

\* the programs 104,v1 and 104,v1,104,v2: output instructions over immediate
\* literals and nothing else
OutputOnly ==
    { <<104, v>> : v \in OutputLiterals }
        \cup { <<104, v, 104, u>> : v, u \in OutputLiterals }

\* the same programs followed by opcode 99
OutputThenHalt == { Append(p, 99) : p \in OutputOnly }

\* 1125899906842624, the number in the middle of the third doctest program
LargeNumber ==
    [negative |-> FALSE,
     digits |-> <<1, 1, 2, 5, 8, 9, 9, 9, 0, 6, 8, 4, 2, 6, 2, 4>>]

\* the doctest program that multiplies 34915192 by itself and the one that
\* outputs the large number
LargeProduct == <<1102, 34915192, 34915192, 7, 4, 7, 99, 0>>

LargeOutput == <<104, LargeNumber, 99>>

\* programs given to IntProgram of 2019/09: the documented ones and small
\* ones that reach every branch of run, get_indices, __getitem__, __setitem__
Programs9 ==
    { <<3, 9, 8, 9, 10, 9, 4, 9, 99, -1, 8>>,
      <<3, 9, 7, 9, 10, 9, 4, 9, 99, -1, 8>>,
      <<3, 3, 1108, -1, 8, 3, 4, 3, 99>>,
      <<3, 3, 1107, -1, 8, 3, 4, 3, 99>>,
      <<3, 12, 6, 12, 15, 1, 13, 14, 13, 4, 13, 99, -1, 0, 1, 9>>,
      <<109, 1, 204, -1, 1001, 100, 1, 100, 1008, 100, 16, 101, 1006, 101, 0, 99>>,
      <<3, 3, 1105, -1, 9, 1101, 0, 0, 12, 4, 12, 99, 1>>,
      <<104, 5, 104, 6, 99>>,
      <<104, 7, 3, 0, 4, 0, 3, 1, 4, 1, 99>>,
      <<3, 0, 3, 1, 1, 0, 1, 9, 4, 9, 99>>,
      <<3, 7, 104, 1, 3, 9, 4, 7, 99>>,
      <<109, 3, 203, 4, 204, 4, 2102, 2, 7, 12, 4, 12, 99>>,
      <<109, 2, 109, -1, 204, 5, 99, 42>>,
      <<1101, 2, 3, 12, 4, 12, 4, 20, 99>>,
      <<99>>,
      <<3, 0, 99>>,
      <<4, 2, 99, 3, 0, 99>>,
      <<>>,
      <<98>>,
      <<104, 1, 17, 4, 1, 99>>,
      <<3, 1, 100, 99>>,
      <<1105, 1, 7>>,
      <<1106, 0, -1>>,
      <<3, -1, 99>>,
      <<4, -1, 99>>,
      <<109, -2, 204, 1, 99>>,
      <<109, -5, 203, 1, 99>>,
      <<1001, 1, 1, -1, 99>>,
      <<1005, -1, 0, 99>>,
      <<105, 0, -4, 5, 2, -4, 99>>,
      <<-3, 0, -99>>,
      <<-104, 3, 4, 1, -100>>,
      <<11101, 2, 3, 99, 4, 3, 99>>,
      <<30001, 5, 4, 1, 99>>,
      <<10003, 0, 4, 1, 99>>,
      <<304, 6, 99>>,
      <<101101, 2, 4, 5, 4, 5, 99>>,
      <<3, 0, 109, 1, 1105, 1, 2>>,
      <<4, 0, 1105, 1, 0>> }
        \cup OutputOnly \cup OutputThenHalt

\* programs given to run_amplifier of 2019/07
Programs7 ==
    { <<3, 15, 3, 16, 1002, 16, 10, 16, 1, 16, 15, 15, 4, 15, 99, 0, 0>>,
      <<3, 23, 3, 24, 1002, 24, 10, 24, 1002, 23, -1, 23,
        101, 5, 23, 23, 1, 24, 23, 23, 4, 23, 99, 0, 0>>,
      <<3, 26, 1001, 26, -4, 26, 3, 27, 1002, 27, 2, 27, 1, 27, 26,
        27, 4, 27, 1001, 28, -1, 28, 1005, 28, 6, 99, 0, 0, 5>>,
      <<104, 7, 99>>,
      <<104, 1, 104, 2, 3, 9, 3, 10, 99, 0, 0>>,
      <<3, 0, 4, 0, 99>>,
      <<3, 0, 4, 0, 3, 0, 99>>,
      <<3, 9, 3, 10, 4, 10, 1005, 9, 2, 99, 0>>,
      <<3, 7, 3, 8, 4, 8, 99, 0, 0>>,
      <<3, 0, 3, 1, 99>>,
      <<3, 0, 3, 1, 3, 2, 99>>,
      <<4, -1, 99>>,
      <<3, -1, 4, 0, 99>>,
      <<3, 1, 1101, 1, 1, -2, 104, 3, 99, 0>>,
      <<104, 1, 1105, 1, 9>>,
      <<104, 2, 1106, 0, -1>>,
      <<3, 3, 9, 0, 99>>,
      <<3, 5, 4, 5, -99, 0>>,
      <<3, 0, 1007, 0, 3, 9, 1008, 9, 1, 9, 4, 9, 99>>,
      <<3, 50, 99>>,
      <<99>> }

\* phase settings given to run_amplifier
Settings == { <<4, 3, 2, 1, 0>>, <<0, 1, 2, 3, 4>>, <<9, 8, 7, 6, 5>> }

\* start values given to run_amplifier
StartValues == {0, 1}

\* the sequences of at least one and at most n values of S
SeqsUpTo(S, n) == UNION { [1..k -> S] : k \in 1..n }

\* ------------------------------------------------------------------------
\* Construction
\* ------------------------------------------------------------------------
\* IntProgram.__init__: self.program = program[:], index (and offset) 0,
\* inputs and outputs held by reference
IntProgram(rev, program, inputs, outputs) ==
    [rev |-> rev, program |-> program, index |-> 0, offset |-> 0,
     inputs |-> inputs, outputs |-> outputs]

NoResult == [engine |-> 0, path |-> "", ret |-> None, exc |-> "",
             supplied |-> None, prior |-> ""]

\* IntProgram(program) of 2019/09 with its own two empty lists, as in the
\* doctests and in part1 and part2
InitDirect ==
    /\ scenario = "direct"
    /\ code \in Programs9
    /\ programs = <<IntProgram(9, code, 1, 2)>>
    /\ links = <<<<>>, <<>>>>
    /\ driver = [phase |-> "calling", calls |-> 0]

\* >>> IntProgram([...]).run() of the doctests with large numbers
InitDoctest ==
    /\ scenario = "doctest"
    /\ code \in {LargeProduct, LargeOutput}
    /\ programs = <<IntProgram(9, code, 1, 2)>>
    /\ links = <<<<>>, <<>>>>
    /\ driver = [phase |-> "calling", calls |-> 0]

\* the same, to be given the values of `feed` one run call at a time
InitResume ==
    /\ scenario = "resume"
    /\ code \in Programs9
    /\ programs = <<IntProgram(9, code, 1, 2)>>
    /\ links = <<<<>>, <<>>>>
    /\ \E feed \in SeqsUpTo(InputValues, MaxFeed) :
          driver = [feed |-> feed, fed |-> 0, pass |-> 1, phase |-> "feeding",
                    first |-> NoResult, firstEngine |-> <<>>, firstOutputs |-> <<>>]

\* mutant of InitAmplifier: every engine gets an output list of its own
InitAmplifier_OwnOutputs ==
    /\ scenario = "amplifier"
    /\ code \in Programs7
    /\ programs = [idx \in 1..5 |-> IntProgram(7, code, idx, idx + 5)]
    /\ links = [n \in 1..10 |-> <<>>]
    /\ \E settings \in Settings, start_value \in StartValues :
          driver = [settings |-> settings, start_value |-> start_value,
                    phase |-> "settings", k |-> 1, value |-> None, rounds |-> 0,
                    mark |-> <<>>]

\* run_amplifier: links = [], [], [], [], [] and
\* programs = [IntProgram(program, links[idx-1], links[idx%5]) for idx in range(1, 6)]
\* (list number n here is links[n-1] there; `mark` is history: what the
\* engines had consumed and produced when the present round began)
InitAmplifier ==
    /\ scenario = "amplifier"
    /\ code \in Programs7
    /\ programs = [idx \in 1..5 |-> IntProgram(7, code, idx, (idx % 5) + 1)]
    /\ links = [n \in 1..5 |-> <<>>]
    /\ \E settings \in Settings, start_value \in StartValues :
          driver = [settings |-> settings, start_value |-> start_value,
                    phase |-> "settings", k |-> 1, value |-> None, rounds |-> 0,
                    mark |-> <<>>]

\* IntProgram(program), whose memory a caller reads and writes with
\* program[index] and program[index] = v
InitMemory ==
    /\ scenario = "memory"
    /\ code \in { <<>>, <<99>>, <<1, 2, 3>> }
    /\ programs = <<IntProgram(9, code, 1, 2)>>
    /\ links = <<<<>>, <<>>>>
    /\ driver = [phase |-> "subscripting", accesses |-> 0]

Init ==
    /\ InitDirect \/ InitDoctest \/ InitResume \/ InitAmplifier \/ InitMemory
    /\ active = 0
    /\ supplied = None
    /\ steps = 0
    /\ result = NoResult
    /\ log = <<>>
    /\ produced = [i \in 1..Len(programs) |-> <<>>]
    /\ consumed = [i \in 1..Len(programs) |-> <<>>]
    /\ halted = [i \in 1..Len(programs) |-> FALSE]
    /\ status = [i \in 1..Len(programs) |-> ""]

\* ------------------------------------------------------------------------
\* Calling run
\* ------------------------------------------------------------------------
\* mutant of Enter: `if value:` instead of `if value is not None:`
Enter_Truthy(i, v) ==
    /\ active = 0
    /\ links' = IF v # None /\ v[1] # 0
                THEN [links EXCEPT ![programs[i].inputs] = Append(@, v[1])]
                ELSE links
    /\ active' = i
    /\ supplied' = v
    /\ steps' = 0
    /\ log' = <<>>
    /\ UNCHANGED <<scenario, code, programs, result, produced, consumed, halted,
                   status>>

\* run(self, value), up to the loop:
\*   if value is not None: self.inputs.append(value)
Enter(i, v) ==
    /\ active = 0
    /\ links' = IF v # None
                THEN [links EXCEPT ![programs[i].inputs] = Append(@, v[1])]
                ELSE links
    /\ active' = i
    /\ supplied' = v
    /\ steps' = 0
    /\ log' = <<>>
    /\ UNCHANGED <<scenario, code, programs, result, produced, consumed, halted,
                   status>>

\* IntProgram.run(value) of 2019/09 called by a user of the class, with no
\* value or with an int.  The method has no precondition, so it may be
\* called on a fresh, a suspended, a halted or a failed engine; the first
\* call with a value is the call of the doctests and, for 1 and 2, of part1
\* and part2, which make no further call.
DirectCall ==
    /\ scenario = "direct"
    /\ driver.calls < MaxCalls
    /\ \E v \in {None} \cup { <<x>> : x \in InputValues } : Enter(1, v)
    /\ driver' = [driver EXCEPT !.calls = @ + 1]

\* the doctest: IntProgram(program).run(), once
DoctestCall ==
    /\ scenario = "doctest"
    /\ driver.calls = 0
    /\ Enter(1, None)
    /\ driver' = [driver EXCEPT !.calls = @ + 1]

\* IntProgram.run(value) called once for each value of `feed`, whatever the
\* calls return: program.run(feed[fed]).  No function of the repository
\* drives an engine of 2019/09 this way; it is the use of the class that
\* resumption by run(value) is stated for.
ResumeFeed ==
    /\ scenario = "resume"
    /\ driver.phase = "feeding"
    /\ Enter(1, <<driver.feed[driver.fed + 1]>>)
    /\ driver' = [driver EXCEPT !.fed = @ + 1]

\* the caller that feeds all inputs upfront:
\* IntProgram(program, inputs=list(feed)).run(), on a fresh engine; what the
\* first engine ended with is kept for the comparison
ResumeUpfront ==
    /\ scenario = "resume"
    /\ driver.phase = "fed"
    /\ active = 0
    /\ driver' = [driver EXCEPT !.pass = 2, !.phase = "upfront", !.first = result,
                                !.firstEngine = programs[1],
                                !.firstOutputs = links[2]]
    /\ programs' = <<IntProgram(9, code, 1, 2)>>
    /\ links' = <<driver.feed, <<>>>>
    /\ active' = 1
    /\ supplied' = None
    /\ steps' = 0
    /\ log' = <<>>
    /\ result' = NoResult
    /\ produced' = <<<<>>>>
    /\ consumed' = <<<<>>>>
    /\ halted' = <<FALSE>>
    /\ status' = <<"">>
    /\ UNCHANGED <<scenario, code>>

\* run_amplifier: for amp, setting in zip(programs, settings): amp.run(setting)
AmpSetting ==
    /\ scenario = "amplifier"
    /\ driver.phase = "settings"
    /\ Enter(driver.k, <<driver.settings[driver.k]>>)
    /\ UNCHANGED driver

\* run_amplifier: for amp in programs: value = amp.run(value)
AmpSignal ==
    /\ scenario = "amplifier"
    /\ driver.phase = "rounds"
    /\ driver.rounds < MaxRounds
    /\ Enter(driver.k, driver.value)
    /\ UNCHANGED driver

\* a subscript operation has run with memory record m
Subscripted(m) ==
    /\ scenario = "memory"
    /\ active = 0
    /\ driver.accesses < MaxAccesses
    /\ programs' = [programs EXCEPT ![1].program = m.program]
    /\ log' = m.log
    /\ result' = [NoResult EXCEPT !.engine = 1,
                                  !.path = IF m.exc = "" THEN "subscript" ELSE "raise",
                                  !.exc = m.exc]
    /\ driver' = [driver EXCEPT !.accesses = @ + 1]
    /\ UNCHANGED <<scenario, code, links, active, steps, produced, consumed, halted,
                   status, supplied>>

\* a caller evaluates program[index]
Subscript ==
    \E index \in -1..MaxAddress :
        Subscripted(getitem(Mem(programs[1].program), index))

\* a caller executes program[index] = v
SubscriptAssign ==
    \E index \in -1..MaxAddress, v \in InputValues :
        Subscripted(setitem(Mem(programs[1].program), index, v))

\* ------------------------------------------------------------------------
\* What the caller does when run returns ret, up to its next call of run
\* ------------------------------------------------------------------------
\* mutant of Returned: `if value is not None: break` inside the for loop
Returned_TestEach(ret) ==
    CASE scenario \in {"direct", "doctest"} -> driver
      [] scenario = "resume" ->
            IF driver.pass = 1
            THEN [driver EXCEPT !.phase = IF driver.fed = Len(driver.feed)
                                          THEN "fed" ELSE "feeding"]
            ELSE [driver EXCEPT !.phase = "done"]
      [] scenario = "amplifier" ->
            IF driver.phase = "settings"
            THEN IF driver.k < 5
                 THEN [driver EXCEPT !.k = @ + 1]
                 ELSE [driver EXCEPT !.phase = "rounds", !.k = 1,
                                     !.value = <<driver.start_value>>,
                                     !.mark = <<consumed, produced>>]
            ELSE IF ret # None
                 THEN [driver EXCEPT !.phase = "done", !.value = ret]
                 ELSE IF driver.k < 5
                 THEN [driver EXCEPT !.k = @ + 1, !.value = ret]
                 ELSE [driver EXCEPT !.k = 1, !.value = ret, !.rounds = @ + 1,
                                          !.mark = <<consumed, produced>>]

Returned(ret) ==
    CASE scenario \in {"direct", "doctest"} -> driver
      [] scenario = "resume" ->
            IF driver.pass = 1
            THEN [driver EXCEPT !.phase = IF driver.fed = Len(driver.feed)
                                          THEN "fed" ELSE "feeding"]
            ELSE [driver EXCEPT !.phase = "done"]
      [] scenario = "amplifier" ->
            IF driver.phase = "settings"
            THEN IF driver.k < 5
                 THEN [driver EXCEPT !.k = @ + 1]
                 ELSE \* value = start_value; while True: for amp in programs
                      [driver EXCEPT !.phase = "rounds", !.k = 1,
                                     !.value = <<driver.start_value>>,
                                     !.mark = <<consumed, produced>>]
            ELSE IF driver.k < 5
                 THEN [driver EXCEPT !.k = @ + 1, !.value = ret]
                 ELSE \* if value is not None: break; return value
                      IF ret # None
                      THEN [driver EXCEPT !.phase = "done", !.value = ret]
                      ELSE [driver EXCEPT !.k = 1, !.value = ret, !.rounds = @ + 1,
                                          !.mark = <<consumed, produced>>]

\* ... and when run raises: run_amplifier does not catch, the feeding
\* callers stop feeding, the direct caller may call again
Thrown ==
    CASE scenario \in {"direct", "doctest"} -> driver
      [] scenario = "resume" ->
            [driver EXCEPT !.phase = IF driver.pass = 1 THEN "fed" ELSE "done"]
      [] scenario = "amplifier" -> [driver EXCEPT !.phase = "raised"]

\* ------------------------------------------------------------------------
\* The loop of run
\* ------------------------------------------------------------------------
Cur == programs[active]

Next9or7 == Step(Cur, links[Cur.inputs], links[Cur.outputs])

\* mutant of Owner: self.program = program, the caller's list itself
Owner_Shared(i) == 0

\* the list object that is engine i's self.program: program[:] makes a new
\* list for every engine (0 stands for the list the caller passed in)
Owner(i) == i

\* the engines and the lists after the iteration with outcome o: the memory
\* list of the running engine is written in place, so every holder of that
\* list sees it
Apply(o) ==
    /\ programs' = [j \in DOMAIN programs |->
                       IF j = active
                       THEN [programs[j] EXCEPT !.program = o.program,
                                                !.index = o.index,
                                                !.offset = o.offset]
                       ELSE IF Owner(j) = Owner(active)
                       THEN [programs[j] EXCEPT !.program = o.program]
                       ELSE programs[j]]
    /\ code' = IF Owner(active) = 0 THEN o.program ELSE code
    /\ links' = [links EXCEPT ![Cur.inputs] = o.inp, ![Cur.outputs] = o.out]
    /\ log' = o.log
    /\ produced' = IF Len(o.out) > Len(links[Cur.outputs])
                   THEN [produced EXCEPT ![active] = Append(@, o.out[Len(o.out)])]
                   ELSE produced
    /\ consumed' = IF Len(o.inp) < Len(links[Cur.inputs])
                   THEN [consumed EXCEPT ![active] = Append(@, Head(links[Cur.inputs]))]
                   ELSE consumed
    /\ UNCHANGED scenario

Finish(path, ret, exc) ==
    /\ active' = 0
    /\ supplied' = None
    /\ steps' = 0
    /\ result' = [engine |-> active, path |-> path, ret |-> ret, exc |-> exc,
                  supplied |-> supplied, prior |-> status[active]]
    /\ status' = [status EXCEPT ![active] = path]
    /\ driver' = IF exc = "" THEN Returned(ret) ELSE Thrown

\* the iteration has outcome o and the loop goes on
Iterated(o) ==
    /\ o.ctl = "continue"
    /\ Apply(o)
    /\ steps' = steps + 1
    /\ UNCHANGED <<active, supplied, result, halted, status, driver>>

\* an instruction that completes and leaves the loop running
Iterate ==
    /\ active # 0
    /\ steps < MaxSteps
    /\ Iterated(Next9or7)

Suspended(o) ==
    /\ o.ctl = "suspend"
    /\ Apply(o)
    /\ Finish("suspend", o.ret, "")
    /\ UNCHANGED halted

\* opcode 3 without input: return None
Suspend ==
    /\ active # 0
    /\ steps < MaxSteps
    /\ Suspended(Next9or7)

Halted(o) ==
    /\ o.ctl = "halt"
    /\ Apply(o)
    /\ Finish("halt", o.ret, o.exc)
    /\ halted' = [halted EXCEPT ![active] = TRUE]

\* opcode 99: break, return self.outputs[-1]
Halt ==
    /\ active # 0
    /\ steps < MaxSteps
    /\ Halted(Next9or7)

Thrower(o) ==
    /\ o.ctl = "raise"
    /\ Apply(o)
    /\ Finish("raise", None, o.exc)
    /\ UNCHANGED halted

\* an exception raised inside the loop
Raise ==
    /\ active # 0
    /\ steps < MaxSteps
    /\ Thrower(Next9or7)

Next ==
    \/ DirectCall
    \/ DoctestCall
    \/ ResumeFeed
    \/ ResumeUpfront
    \/ AmpSetting
    \/ AmpSignal
    \/ Subscript
    \/ SubscriptAssign
    \/ Iterate
    \/ Suspend
    \/ Halt
    \/ Raise

Spec == Init /\ [][Next]_vars

\* the states in which run or its caller has a next statement to execute
\* within the bounds, that is, the states in which Next is enabled
HasNext ==
    \/ active # 0 /\ steps < MaxSteps
    \/ active = 0 /\ scenario = "direct" /\ driver.calls < MaxCalls
    \/ active = 0 /\ scenario = "doctest" /\ driver.calls = 0
    \/ active = 0 /\ scenario = "resume" /\ driver.phase \in {"feeding", "fed"}
    \/ active = 0 /\ scenario = "amplifier"
          /\ \/ driver.phase = "settings"
             \/ driver.phase = "rounds" /\ driver.rounds < MaxRounds
    \/ active = 0 /\ scenario = "memory" /\ driver.accesses < MaxAccesses

\* the interpreter and its callers are one sequential Python program: the
\* next statement is executed whenever there is one.  This is weak fairness
\* of Next, WF_vars(Next), with ENABLED <<Next>>_vars written as HasNext.
FairSpec == Spec /\ (([]<>~HasNext) \/ ([]<><<Next>>_vars))

\* ------------------------------------------------------------------------
\* Vocabulary of the properties
\* ------------------------------------------------------------------------
Inputs(i) == links[programs[i].inputs]

Outputs(i) == links[programs[i].outputs]

Last(q) == q[Len(q)]

IsPrefix(p, q) == Len(p) <= Len(q) /\ SubSeq(q, 1, Len(p)) = p

\* the index register points at a word: any index >= 0 in the growable
\* memory of 2019/09, any index a list subscript accepts in 2019/07
HasWord(e) ==
    IF e.rev = 9 THEN e.index >= 0 ELSE ListCell(e.program, e.index) # -1

\* the word the index register points at
Word(e) ==
    IF e.rev = 9
    THEN IF e.index < Len(e.program) THEN e.program[e.index + 1] ELSE 0
    ELSE e.program[ListCell(e.program, e.index) + 1]

\* the low two decimal digits of a word
LowTwoDigits(w) == (IF w < 0 THEN -w ELSE w) % 100

\* the engine whose run call is in its loop is about to execute opcode op
About(op) == active # 0 /\ HasWord(Cur) /\ LowTwoDigits(Word(Cur)) = op

\* two memories hold the same value at every address (cells past the end
\* of the shorter one being 0 in the longer one)
SameValues(p, q) ==
    /\ \A a \in 1..Len(p) : p[a] = (IF a <= Len(q) THEN q[a] ELSE 0)
    /\ \A a \in 1..Len(q) : q[a] = (IF a <= Len(p) THEN p[a] ELSE 0)

\* this step is the start of a run call on engine i
Entering(i) == active = 0 /\ active' = i /\ driver'.phase # "upfront"

\* this step ends the run call in progress
Leaving == active # 0 /\ active' = 0

\* ------------------------------------------------------------------------
\* C1: an input instruction that finds the input channel empty makes run
\* return None with the index register, the memory, the relative base and
\* every channel as they were; and run() without a value on an engine whose
\* last call ended that way, its channel still empty, leaves the engine at
\* that same input instruction, so that it returns None again, unchanged.
\* ------------------------------------------------------------------------
C1_SuspendKeepsState ==
    [][ /\ (About(3) /\ Inputs(active) = <<>>) =>
              /\ Leaving
              /\ result'.path = "suspend" /\ result'.ret = None /\ result'.exc = ""
              /\ programs' = programs
              /\ links' = links
        /\ \A i \in 1..Len(programs) :
              (Entering(i) /\ supplied' = None /\ status[i] = "suspend"
                  /\ Inputs(i) = <<>>) =>
                 /\ programs' = programs
                 /\ links' = links
                 /\ HasWord(programs'[i])
                 /\ LowTwoDigits(Word(programs'[i])) = 3
      ]_vars

\* a call without a value has returned None on an engine whose call before
\* had also returned None
C1_Witness ==
    /\ active = 0
    /\ result.path = "suspend"
    /\ result.prior = "suspend"
    /\ result.supplied = None

\* ------------------------------------------------------------------------
\* C2: the engine fed all of `feed` before its only run() call ends as the
\* engine fed one value per run call ended: same outputs, memory, index,
\* relative base and same return (value, None or exception).
\* ------------------------------------------------------------------------
C2_ResumeEquivalence ==
    (scenario = "resume" /\ driver.phase = "done") =>
        /\ links[2] = driver.firstOutputs
        /\ programs[1].program = driver.firstEngine.program
        /\ programs[1].index = driver.firstEngine.index
        /\ programs[1].offset = driver.firstEngine.offset
        /\ result.path = driver.first.path
        /\ result.ret = driver.first.ret
        /\ result.exc = driver.first.exc

\* both engines halted with a value after consuming two inputs, the first
\* one having been suspended in between
C2_Witness ==
    /\ scenario = "resume"
    /\ driver.phase = "done"
    /\ Len(driver.feed) = 2
    /\ links[1] = <<>>
    /\ result.path = "halt"
    /\ result.ret # None
    /\ driver.first.prior = "suspend"

\* ------------------------------------------------------------------------
\* C3: run(v) appends v to the tail of the input channel before any
\* instruction executes; a value leaves the channel only from its head, by
\* an input instruction, which stores it into memory in that same step.
\* ------------------------------------------------------------------------
C3_InputFifo ==
    [][ /\ \A i \in 1..Len(programs) :
              (Entering(i) /\ supplied' # None) =>
                 /\ links' = [links EXCEPT ![programs[i].inputs] = Append(@, supplied'[1])]
                 /\ programs' = programs
        /\ \A n \in 1..Len(links) :
              (active # 0 /\ ~IsPrefix(links[n], links'[n])) =>
                 /\ n = Cur.inputs
                 /\ About(3)
                 /\ links[n] # <<>>
                 /\ links'[n] = Tail(links[n])
                 /\ log' # <<>>
                 /\ Last(log').op = "set" /\ Last(log').ok
                 /\ Last(log').value = Head(links[n])
      ]_vars

\* ------------------------------------------------------------------------
\* C4: a run call that ends with opcode 99 and returns a value returns the
\* last value the engine's own output instructions appended.
\* ------------------------------------------------------------------------
C4_HaltReturnsOwnOutput ==
    (active = 0 /\ result.path = "halt" /\ result.ret # None) =>
        /\ produced[result.engine] # <<>>
        /\ result.ret = <<Last(produced[result.engine])>>

\* ------------------------------------------------------------------------
\* C5: a run call that ends with opcode 99 on an engine that never output
\* anything returns normally and returns no value.
\* ------------------------------------------------------------------------
C5_HaltWithoutOutput ==
    (active = 0 /\ result.path = "halt" /\ produced[result.engine] = <<>>) =>
        /\ result.exc = ""
        /\ result.ret = None

\* ------------------------------------------------------------------------
\* C6: run returns None exactly when the call stopped at an input
\* instruction with an empty input channel; a call ended by opcode 99 never
\* returns None.
\* ------------------------------------------------------------------------
C6_SentinelMeansSuspended ==
    [][ Leaving =>
          /\ (result'.exc = "" /\ result'.ret = None)
                <=> (About(3) /\ Inputs(active) = <<>>)
          /\ About(99) => ~(result'.exc = "" /\ result'.ret = None)
          /\ result'.path = "suspend" <=> (result'.exc = "" /\ result'.ret = None)
      ]_vars

\* an engine that had returned None has later halted and returned a value
C6_Witness ==
    /\ active = 0
    /\ result.path = "halt"
    /\ result.exc = ""
    /\ result.ret # None
    /\ result.prior = "suspend"

\* ------------------------------------------------------------------------
\* C7: once an engine has executed opcode 99, a later run call on it, with
\* or without a value, takes nothing from its input channel, appends nothing
\* to its output channel, executes no further instruction (index register,
\* memory, relative base and all channels unchanged) and again reports
\* halted: it returns a value and raises nothing.
\* ------------------------------------------------------------------------
C7_HaltedIsPermanent ==
    [][ /\ \A i \in 1..Len(programs) :
              (Entering(i) /\ halted[i]) =>
                 /\ programs' = programs
                 /\ IsPrefix(Inputs(i), links'[programs[i].inputs])
                 /\ links'[programs[i].outputs] = Outputs(i)
        /\ (active # 0 /\ halted[active]) =>
              /\ Leaving
              /\ result'.path = "halt"
              /\ result'.exc = ""
              /\ result'.ret # None
              /\ programs' = programs
              /\ links' = links
              /\ produced' = produced
              /\ halted' = halted
      ]_vars

\* ------------------------------------------------------------------------
\* C8: a word whose low two decimal digits are not one of 1..9, 99 makes
\* run raise ValueError at that word: the call ends, the index register,
\* the relative base and the channels are unchanged and so is the value at
\* every memory address.
\* ------------------------------------------------------------------------
C8_UnrecognizedIsFatal ==
    [][ (active # 0 /\ HasWord(Cur)
            /\ LowTwoDigits(Word(Cur)) \notin (1..9) \cup {99}) =>
          /\ Leaving
          /\ result'.path = "raise"
          /\ result'.exc = "ValueError"
          /\ programs'[active].index = Cur.index
          /\ programs'[active].offset = Cur.offset
          /\ SameValues(Cur.program, programs'[active].program)
          /\ \A i \in 1..Len(programs) : i # active => programs'[i] = programs[i]
          /\ links' = links
      ]_vars

\* run has raised ValueError after the engine had executed an output
\* instruction
C8_Witness ==
    /\ active = 0
    /\ result.path = "raise"
    /\ result.exc = "ValueError"
    /\ produced[result.engine] # <<>>

\* ------------------------------------------------------------------------
\* C9: no memory access at a negative address succeeds.
\* ------------------------------------------------------------------------
C9_NegativeAddressFails ==
    \A k \in 1..Len(log) : log[k].index < 0 => ~log[k].ok

\* ------------------------------------------------------------------------
\* C10 (growable memory of 2019/09): the accesses of an instruction act one
\* after the other on the engine's memory; an access at an address at or
\* past the end makes the length that address plus one, keeps the cells there
\* were, zero-fills the new ones (but the written one) and, if a read,
\* returns 0; and the length of an engine's memory never decreases.
\* ------------------------------------------------------------------------
GrowsRight(r) ==
    (r.ok /\ r.index >= Len(r.before)) =>
        /\ Len(r.after) = r.index + 1
        /\ SubSeq(r.after, 1, Len(r.before)) = r.before
        /\ \A a \in (Len(r.before) + 1)..r.index : r.after[a] = 0
        /\ r.after[r.index + 1] = (IF r.op = "set" THEN r.value ELSE 0)
        /\ r.op = "get" => r.value = 0

\* the engine whose memory this step accesses, 0 if it accesses none
Accessing ==
    IF active # 0 /\ Cur.rev = 9 THEN active
    ELSE IF scenario = "memory" /\ driver' # driver THEN 1
    ELSE 0

C10_MemoryGrowsWithZeros ==
    [][ Accessing # 0 =>
          /\ log' # <<>>
          /\ log'[1].before = programs[Accessing].program
          /\ \A k \in 1..(Len(log') - 1) : log'[k + 1].before = log'[k].after
          /\ Last(log').after = programs'[Accessing].program
          /\ \A k \in 1..Len(log') : GrowsRight(log'[k])
          /\ Len(programs'[Accessing].program) >= Len(programs[Accessing].program)
      ]_vars

\* an instruction of a running engine has read past the end, leaving a gap
\* of new cells, and a caller's program[index] = v has written past the end,
\* leaving a gap
C10_Witness ==
    \/ /\ scenario = "direct"
       /\ \E k \in 1..Len(log) :
             log[k].op = "get" /\ log[k].ok /\ log[k].index > Len(log[k].before)
       /\ produced[1] # <<>>
    \/ /\ scenario = "memory"
       /\ log # <<>>
       /\ Last(log).op = "set" /\ Last(log).ok
       /\ Last(log).index > Len(Last(log).before)
       /\ Last(log).value # 0

\* ------------------------------------------------------------------------
\* C11: engines constructed from one program list have memories of their
\* own: a loop iteration of one engine changes neither the memory of any
\* other engine nor the list the caller passed in, so every engine finds the
\* original program at its first run call, and an engine constructed later
\* from the same list starts from it too.
\* ------------------------------------------------------------------------
C11_IndependentMemories ==
    [][ /\ code' = code
        /\ active # 0 =>
              \A j \in 1..Len(programs) :
                  j # active => programs'[j].program = programs[j].program
        /\ \A i \in 1..Len(programs) :
              (Entering(i) /\ status[i] = "") => programs[i].program = code
        /\ (scenario = "resume" /\ driver.phase = "fed" /\ driver'.phase = "upfront") =>
              programs'[1].program = code
      ]_vars

\* run_amplifier has returned, every engine has written to its memory and
\* the five memories differ from one another
C11_Witness ==
    /\ scenario = "amplifier"
    /\ driver.phase = "done"
    /\ \A i \in 1..5 : programs[i].program # code
    /\ \A i, j \in 1..5 : i # j => programs[i].program # programs[j].program

\* the engine after engine i in the ring of run_amplifier
Downstream(i) == (i % 5) + 1

\* ------------------------------------------------------------------------
\* C12: in run_amplifier the output list of engine i is the input list of
\* engine (i+1) mod 5, one list and no copy: a value an output instruction
\* of engine i appends is in that very step the newest element of the next
\* engine's input list, and a running engine changes its input list only by
\* taking the oldest element, so values are consumed in the order produced.
\* ------------------------------------------------------------------------
C12_SharedQueue ==
    [][ scenario = "amplifier" =>
          /\ \A i \in 1..5 : programs[i].outputs = programs[Downstream(i)].inputs
          /\ \A i \in 1..5 :
                produced'[i] # produced[i] =>
                   /\ i = active
                   /\ About(4)
                   /\ links'[programs[Downstream(i)].inputs]
                         = Append(links[programs[Downstream(i)].inputs],
                                  Last(produced'[i]))
          /\ (active # 0 /\ Inputs(active) # links'[Cur.inputs]) =>
                /\ Inputs(active) # <<>>
                /\ links'[Cur.inputs] = Tail(Inputs(active))
      ]_vars

\* engine B is about to consume, oldest first, two values that engine A
\* produced and that nothing else put on the list between them
C12_Witness ==
    /\ scenario = "amplifier"
    /\ active = 2
    /\ About(3)
    /\ Len(produced[1]) >= 2
    /\ Len(Inputs(2)) >= 2
    /\ Inputs(2)[1] = produced[1][1]
    /\ Inputs(2)[2] = produced[1][2]
    /\ produced[1][1] # produced[1][2]

\* ------------------------------------------------------------------------
\* C13: run_amplifier has run every engine once with the engine's own
\* setting before the first signal round, and the first value the input
\* instructions of an engine take is that engine's own setting.
\* ------------------------------------------------------------------------
C13_SettingConsumedFirst ==
    scenario = "amplifier" =>
        /\ driver.phase \in {"rounds", "done"} => \A i \in 1..5 : status[i] # ""
        /\ (active # 0 /\ driver.phase = "settings") =>
              supplied = <<driver.settings[active]>>
        /\ \A i \in 1..5 :
              consumed[i] # <<>> => consumed[i][1] = driver.settings[i]

\* ------------------------------------------------------------------------
\* C14: run_amplifier runs the engines in the fixed cyclic order A, B, C, D,
\* E, A, ...: the engine run next is always the one after the engine run
\* last, so in a signal round each engine is run once and none twice before
\* the others; and the exit test is made, and a round is counted, only when
\* engine E's run of the round has returned.
\* ------------------------------------------------------------------------
C14_RoundRobin ==
    [][ scenario = "amplifier" =>
          /\ \A i \in 1..5 : Entering(i) => i = Downstream(result.engine)
          /\ (driver.phase # "done" /\ driver'.phase = "done") =>
                (driver.phase = "rounds" /\ active = 5 /\ Leaving)
          /\ driver'.rounds # driver.rounds =>
                (driver.phase = "rounds" /\ active = 5 /\ Leaving
                 /\ driver'.rounds = driver.rounds + 1)
      ]_vars

\* in the third signal round engine C is being run, after engine B
C14_Witness ==
    /\ scenario = "amplifier"
    /\ driver.phase = "rounds"
    /\ driver.rounds = 2
    /\ active = 3
    /\ result.engine = 2
    /\ consumed[3] # <<>>

\* ------------------------------------------------------------------------
\* C15: in run_amplifier a run call returns to the caller as soon as an
\* output instruction has executed, and returns the value just produced.
\* ------------------------------------------------------------------------
C15_OutputReturns ==
    [][ (scenario = "amplifier" /\ active # 0 /\ produced'[active] # produced[active]) =>
          /\ Leaving
          /\ result'.exc = ""
          /\ result'.ret = <<Last(produced'[active])>>
      ]_vars

\* ------------------------------------------------------------------------
\* C16: run_amplifier returns when engine E's run of a signal round has
\* ended with opcode 99, and then returns the last value engine E output; it
\* goes on to another round when that run returned None at an input
\* instruction.
\* ------------------------------------------------------------------------
C16_ReturnsWhenLastHalts ==
    [][ (scenario = "amplifier" /\ driver.phase = "rounds" /\ active = 5 /\ Leaving) =>
          /\ result'.path = "halt" =>
                /\ driver'.phase = "done"
                /\ produced'[5] # <<>>
                /\ driver'.value = <<Last(produced'[5])>>
          /\ result'.path = "suspend" => driver'.phase = "rounds"
      ]_vars

\* the feedback-loop example of the module docstring of 2019/07
FeedbackExample ==
    <<3, 26, 1001, 26, -4, 26, 3, 27, 1002, 27, 2, 27, 1, 27, 26,
      27, 4, 27, 1001, 28, -1, 28, 1005, 28, 6, 99, 0, 0, 5>>

\* run_amplifier(code, settings, start_value) has been called
Called(program, settings, start_value) ==
    /\ scenario = "amplifier"
    /\ code = program
    /\ driver.settings = settings
    /\ driver.start_value = start_value

\* ------------------------------------------------------------------------
\* C17: run_amplifier on the feedback-loop example with settings 9,8,7,6,5
\* and start value 0 terminates and returns 139629729.
\* ------------------------------------------------------------------------
C17_FeedbackResult ==
    Called(FeedbackExample, <<9, 8, 7, 6, 5>>, 0)
        ~> (/\ Called(FeedbackExample, <<9, 8, 7, 6, 5>>, 0)
            /\ driver.phase = "done"
            /\ driver.value = <<139629729>>)

\* the call has returned that value after five signal rounds, every engine
\* halted
C17_Witness ==
    /\ Called(FeedbackExample, <<9, 8, 7, 6, 5>>, 0)
    /\ driver.phase = "done"
    /\ driver.value = <<139629729>>
    /\ driver.rounds = 4
    /\ \A i \in 1..5 : halted[i] /\ Len(produced[i]) = 5

\* the two examples of the docstring of run_amplifier
AmplifierExample1 ==
    <<3, 15, 3, 16, 1002, 16, 10, 16, 1, 16, 15, 15, 4, 15, 99, 0, 0>>

AmplifierExample2 ==
    <<3, 23, 3, 24, 1002, 24, 10, 24, 1002, 23, -1, 23,
      101, 5, 23, 23, 1, 24, 23, 23, 4, 23, 99, 0, 0>>

\* programs that read a setting, read one signal, output one value and halt
SinglePass == { AmplifierExample1, AmplifierExample2, <<3, 7, 3, 8, 4, 8, 99, 0, 0>> }

\* ------------------------------------------------------------------------
\* C18: for a program that reads a setting, reads one signal, outputs one
\* value and halts, run_amplifier raises nothing, needs one signal round,
\* the signal engine k takes is the value engine k-1 output (the start value
\* for engine A), and once it has returned all five engines have halted and
\* the value returned is engine E's output: 43210 for the first documented
\* program with settings 4,3,2,1,0 and 54321 for the second with 0,1,2,3,4,
\* both with start value 0.
\* ------------------------------------------------------------------------
C18_SinglePass ==
    (scenario = "amplifier" /\ code \in SinglePass) =>
        /\ driver.phase # "raised"
        /\ driver.rounds = 0
        /\ steps < MaxSteps
        /\ \A k \in 1..5 :
              /\ Len(consumed[k]) <= 2
              /\ Len(produced[k]) <= 1
              /\ consumed[k] # <<>> => consumed[k][1] = driver.settings[k]
              /\ Len(consumed[k]) = 2 =>
                    consumed[k][2] = IF k = 1 THEN driver.start_value
                                     ELSE produced[k - 1][1]
        /\ driver.phase = "done" =>
              /\ \A k \in 1..5 : halted[k] /\ Len(consumed[k]) = 2 /\ Len(produced[k]) = 1
              /\ driver.value = <<produced[5][1]>>
              /\ Called(AmplifierExample1, <<4, 3, 2, 1, 0>>, 0) =>
                    driver.value = <<43210>>
              /\ Called(AmplifierExample2, <<0, 1, 2, 3, 4>>, 0) =>
                    driver.value = <<54321>>

\* both documented calls have returned their documented value
C18_Witness ==
    /\ driver.phase = "done"
    /\ \/ Called(AmplifierExample1, <<4, 3, 2, 1, 0>>, 0) /\ driver.value = <<43210>>
       \/ Called(AmplifierExample2, <<0, 1, 2, 3, 4>>, 0) /\ driver.value = <<54321>>
    /\ \A k \in 2..5 : consumed[k] = <<driver.settings[k], produced[k - 1][1]>>

\* the program of the docstring of IntProgram (2019/09) that outputs itself
Quine ==
    <<109, 1, 204, -1, 1001, 100, 1, 100, 1008, 100, 16, 101, 1006, 101, 0, 99>>

\* IntProgram(Quine).run(), the first call on the engine, is in progress or
\* has ended
QuineRun ==
    /\ scenario = "direct"
    /\ code = Quine
    /\ driver.calls = 1
    /\ IF active = 1 THEN supplied = None ELSE result.supplied = None

\* ------------------------------------------------------------------------
\* C19: the program 109,1,204,-1,1001,100,1,100,1008,100,16,101,1006,101,0,99
\* run with no input never suspends; what it has appended to its output list
\* is at any time a prefix of the program itself; the call ends, at opcode
\* 99, with the output list equal to the 16 values of the program and run
\* returning 99.
\* ------------------------------------------------------------------------
C19_Quine ==
    /\ [](QuineRun =>
            /\ IsPrefix(Outputs(1), Quine)
            /\ produced[1] = Outputs(1)
            /\ active = 0 => result.path = "halt")
    /\ (QuineRun /\ active = 1)
          ~> (/\ QuineRun
              /\ active = 0
              /\ result.path = "halt"
              /\ result.exc = ""
              /\ result.ret = <<99>>
              /\ Outputs(1) = Quine)

\* the call has ended that way, having extended the memory to 102 cells
C19_Witness ==
    /\ QuineRun
    /\ active = 0
    /\ result.path = "halt"
    /\ result.ret = <<99>>
    /\ Outputs(1) = Quine
    /\ Len(programs[1].program) = 102
    /\ programs[1].offset = 16

\* the comparison examples of the docstring of IntProgram (2019/09):
\* equal to 8 and less than 8, each in position mode and in immediate mode
EqualPosition == <<3, 9, 8, 9, 10, 9, 4, 9, 99, -1, 8>>

EqualImmediate == <<3, 3, 1108, -1, 8, 3, 4, 3, 99>>

LessPosition == <<3, 9, 7, 9, 10, 9, 4, 9, 99, -1, 8>>

LessImmediate == <<3, 3, 1107, -1, 8, 3, 4, 3, 99>>

\* the run call that gave the engine its first value has ended (earlier
\* calls, if any, were run() and returned None at the input instruction)
FirstValueGiven ==
    /\ scenario = "direct"
    /\ active = 0
    /\ result.supplied # None
    /\ result.prior # "halt"

\* that call returned v and v is all the engine has output
Answered(v) ==
    /\ result.path = "halt"
    /\ result.exc = ""
    /\ result.ret = <<v>>
    /\ Outputs(1) = <<v>>

\* ------------------------------------------------------------------------
\* C20: given x, the position-mode program 3,9,8,9,10,9,4,9,99,-1,8 and the
\* immediate-mode program 3,3,1108,-1,8,3,4,3,99 both return 1 if x = 8 and
\* 0 otherwise, and 3,9,7,9,10,9,4,9,99,-1,8 and 3,3,1107,-1,8,3,4,3,99 both
\* return 1 if x < 8 and 0 otherwise: the two encodings agree on every x.
\* ------------------------------------------------------------------------
C20_ComparisonEncodings ==
    FirstValueGiven =>
        /\ code \in {EqualPosition, EqualImmediate} =>
              Answered(IF result.supplied[1] = 8 THEN 1 ELSE 0)
        /\ code \in {LessPosition, LessImmediate} =>
              Answered(IF result.supplied[1] < 8 THEN 1 ELSE 0)

\* run(7), run(8) or run(9) has returned on one of the four programs, after
\* a run() that had returned None
C20_Witness ==
    /\ FirstValueGiven
    /\ result.prior = "suspend"
    /\ \/ code = EqualPosition /\ result.supplied = <<8>> /\ Answered(1)
       \/ code = EqualImmediate /\ result.supplied = <<9>> /\ Answered(0)
       \/ code = LessPosition /\ result.supplied = <<7>> /\ Answered(1)
       \/ code = LessImmediate /\ result.supplied = <<8>> /\ Answered(0)

\* IntProgram(code).run(), the first call on the engine, is in progress or
\* has ended
FirstRunWithoutInput ==
    /\ scenario = "direct"
    /\ driver.calls = 1
    /\ IF active = 1 THEN supplied = None ELSE result.supplied = None

\* the literals v1, ..., vn of the program 104,v1,...,104,vn(,99)
LiteralsOf(program) == [k \in 1..(Len(program) \div 2) |-> program[2 * k]]

\* ------------------------------------------------------------------------
\* C21, as stated: a program 104,v1,104,v2,...,104,vn run without input
\* appends v1,...,vn in that order to its output list and then halts.
\* ------------------------------------------------------------------------
C21_OutputOnlyHalts ==
    (FirstRunWithoutInput /\ code \in OutputOnly) =>
        /\ IsPrefix(Outputs(1), LiteralsOf(code))
        /\ active = 0 => (result.path = "halt" /\ Outputs(1) = LiteralsOf(code))

\* ------------------------------------------------------------------------
\* C21, amended: a program 104,v1,...,104,vn,99 with n >= 1 run without
\* input appends v1,...,vn in that order to its output list and then halts
\* at opcode 99, run returning vn.
\* ------------------------------------------------------------------------
C21_OutputThenHalt ==
    (FirstRunWithoutInput /\ code \in OutputThenHalt) =>
        /\ IsPrefix(Outputs(1), LiteralsOf(code))
        /\ steps < MaxSteps
        /\ active = 0 =>
              /\ result.path = "halt"
              /\ result.exc = ""
              /\ result.ret = <<Last(LiteralsOf(code))>>
              /\ Outputs(1) = LiteralsOf(code)
              /\ Inputs(1) = <<>>

\* run() has returned 7 on 104,-1,104,7,99 with the outputs -1, 7
C21_Witness ==
    /\ FirstRunWithoutInput
    /\ code = <<104, -1, 104, 7, 99>>
    /\ active = 0
    /\ result.path = "halt"
    /\ result.ret = <<7>>
    /\ Outputs(1) = <<-1, 7>>

\* 1219070632396864 = 34915192 * 34915192
LargeSquare ==
    [negative |-> FALSE,
     digits |-> <<1, 2, 1, 9, 0, 7, 0, 6, 3, 2, 3, 9, 6, 8, 6, 4>>]

\* the run() of a doctest with large numbers has ended
DoctestDone == scenario = "doctest" /\ driver.calls = 1 /\ active = 0

\* ------------------------------------------------------------------------
\* C22: values are not truncated to a width: run() of
\* 1102,34915192,34915192,7,4,7,99,0 outputs and returns 1219070632396864,
\* the exact product, and run() of 104,1125899906842624,99 outputs and
\* returns 1125899906842624.
\* ------------------------------------------------------------------------
C22_ExactIntegers ==
    DoctestDone =>
        /\ result.path = "halt"
        /\ result.exc = ""
        /\ IF code = LargeProduct
           THEN /\ Outputs(1) = <<LargeSquare>>
                /\ result.ret = <<LargeSquare>>
                /\ programs[1].program[8] = LargeSquare
           ELSE /\ Outputs(1) = <<LargeNumber>>
                /\ result.ret = <<LargeNumber>>

\* run() of the multiplying program has returned the 16-digit product
C22_Witness ==
    /\ DoctestDone
    /\ code = LargeProduct
    /\ result.path = "halt"
    /\ result.ret = <<LargeSquare>>

\* the mode digit of operand k in the word w >= 0
ModeDigit(w, k) == (w \div (10 ^ (k + 1))) % 10

\* the value at address a >= 0 of the growable memory of engine e
Cell(e, a) == IF a < Len(e.program) THEN e.program[a + 1] ELSE 0

\* the address of operand k of the instruction at the index register of e,
\* by the positional, immediate and relative rule
Address(e, k) ==
    CASE ModeDigit(Word(e), k) = 0 -> Cell(e, e.index + k)
      [] ModeDigit(Word(e), k) = 1 -> e.index + k
      [] ModeDigit(Word(e), k) = 2 -> Cell(e, e.index + k) + e.offset

\* the number of operands an opcode reads
ReadOperands(op) ==
    CASE op \in {1, 2, 5, 6, 7, 8} -> 2
      [] op \in {4, 9} -> 1
      [] OTHER -> 0

\* the number of memory accesses that resolve operand k: the operand cell is
\* read unless the mode is immediate, and the addressed cell is read
Hops(w, k) == IF ModeDigit(w, k) = 1 THEN 1 ELSE 2

\* the place, among the accesses of an iteration, of the read of the cell
\* that operand k addresses (the first access fetches the word)
Place(w, k) == 1 + Hops(w, 1) + (IF k = 2 THEN Hops(w, 2) ELSE 0)

\* the engine of 2019/09 is about to decode a non-negative word
Decoding ==
    /\ active # 0
    /\ Cur.rev = 9
    /\ Cur.index >= 0
    /\ Word(Cur) >= 0

\* ------------------------------------------------------------------------
\* C23: for a non-negative word w the 2019/09 engine takes w mod 100 as the
\* opcode and the digit (w div 10^(k+1)) mod 10 as the mode of operand k, 0
\* when w has no such digit.  A read operand in mode 0 addresses the cell
\* mem[ip+k], in mode 1 the cell ip+k, in mode 2 the cell
\* mem[ip+k] + relative base, and its value is what that cell holds: that is
\* the cell the instruction reads, the value opcode 4 appends to the outputs
\* and the value opcode 9 adds to the relative base.
\* ------------------------------------------------------------------------
C23_OperandResolution ==
    [][Decoding =>
        /\ Decode(Word(Cur), 5).opcode = Word(Cur) % 100
        /\ \A k \in 1..3 :
              ZipReversed(Decode(Word(Cur), 5).mode, <<1, 2, 3>>)[k][1]
                  = DIGITS[ModeDigit(Word(Cur), k) + 1]
        /\ \A k \in 1..ReadOperands(Word(Cur) % 100) :
              (/\ \A j \in 1..k : ModeDigit(Word(Cur), j) \in {0, 1, 2}
               /\ Len(log') >= Place(Word(Cur), k)) =>
                  /\ log'[Place(Word(Cur), k)].op = "get"
                  /\ log'[Place(Word(Cur), k)].index = Address(Cur, k)
                  /\ log'[Place(Word(Cur), k)].ok = (Address(Cur, k) >= 0)
                  /\ Address(Cur, k) >= 0 =>
                        log'[Place(Word(Cur), k)].value = Cell(Cur, Address(Cur, k))
        /\ (/\ Word(Cur) % 100 \in {4, 9}
            /\ ModeDigit(Word(Cur), 1) \in {0, 1, 2}
            /\ active' = active) =>
              IF Word(Cur) % 100 = 4
              THEN links'[Cur.outputs]
                      = Append(links[Cur.outputs], Cell(Cur, Address(Cur, 1)))
              ELSE programs'[active].offset
                      = Cur.offset + Cell(Cur, Address(Cur, 1))]_vars

\* the word 101101 has been executed: operands 2 and 4 taken in immediate
\* mode, their sum stored through the third operand in positional mode, the
\* sixth digit ignored
C23_Witness ==
    /\ scenario = "direct"
    /\ code = <<101101, 2, 4, 5, 4, 5, 99>>
    /\ active = 1
    /\ programs[1].index = 4
    /\ programs[1].program = <<101101, 2, 4, 5, 4, 6, 99>>
    /\ Len(log) = 8
    /\ log[2].index = 1 /\ log[3].index = 2

\* the operand that names the destination of a storing opcode
DestinationOperand(op) == IF op = 3 THEN 1 ELSE 3

\* the word at the index register of e without its sign
Unsigned(e) == IF Word(e) < 0 THEN -Word(e) ELSE Word(e)

\* the running engine stores in this iteration: its last memory access is a
\* write
Storing ==
    /\ active # 0
    /\ HasWord(Cur)
    /\ LowTwoDigits(Word(Cur)) \in {1, 2, 3, 7, 8}
    /\ log' # <<>>
    /\ Last(log').op = "set"

\* ------------------------------------------------------------------------
\* C24: the cell a storing instruction (opcodes 1, 2, 3, 7, 8) writes is
\* mem[ip+k] when the mode digit of its destination operand k is not 2 and
\* mem[ip+k] + relative base when it is 2; the destination is never taken
\* in immediate mode, so the operand cell ip+k itself is not the cell
\* written.
\* ------------------------------------------------------------------------
C24_DestinationNeverImmediate ==
    [][Storing =>
        Last(log').index =
            IF Cur.rev = 9
            THEN Cell(Cur, Cur.index + DestinationOperand(LowTwoDigits(Word(Cur))))
                 + (IF ModeDigit(Unsigned(Cur),
                                 DestinationOperand(LowTwoDigits(Word(Cur)))) = 2
                    THEN Cur.offset ELSE 0)
            ELSE Cur.program[Cur.index
                             + DestinationOperand(LowTwoDigits(Word(Cur))) + 1]]_vars

\* the running engine completes an iteration on one of the opcodes 1, 2, 7, 8
Operating ==
    /\ active # 0
    /\ HasWord(Cur)
    /\ LowTwoDigits(Word(Cur)) \in OPERATORS
    /\ active' = active

\* the word is well formed for an arithmetic or comparison instruction of
\* 2019/09: not negative, read operands in mode 0, 1 or 2, destination in
\* mode 0 or 2
WellFormedOperation ==
    /\ Cur.rev = 9
    /\ Word(Cur) >= 0
    /\ ModeDigit(Word(Cur), 1) \in {0, 1, 2}
    /\ ModeDigit(Word(Cur), 2) \in {0, 1, 2}
    /\ ModeDigit(Word(Cur), 3) \in {0, 2}

\* the cell the last access of the iteration wrote: a negative subscript of
\* the list of 2019/07 counts from the end
Written ==
    IF Cur.rev = 9 THEN Last(log').index
    ELSE ListCell(Cur.program, Last(log').index)

\* a + b, a * b, a < b and a = b as 1 or 0
Arithmetic(op, a, b) ==
    CASE op = 1 -> a + b
      [] op = 2 -> a * b
      [] op = 7 -> IF a < b THEN 1 ELSE 0
      [] op = 8 -> IF a = b THEN 1 ELSE 0

\* ------------------------------------------------------------------------
\* C25: an instruction with opcode 1, 2, 7 or 8 writes one cell, the
\* destination, and moves the index register forward by exactly 4; every
\* other cell keeps its value, the relative base and both channels are
\* unchanged.  For a well-formed word of 2019/09 the destination is the
\* address of operand 3 and the value written is a+b, a*b, (1 if a<b else 0)
\* or (1 if a=b else 0) of the values a, b of operands 1 and 2.
\* ------------------------------------------------------------------------
C25_OperationEffect ==
    [][Operating =>
        /\ Last(log').op = "set"
        /\ Last(log').ok
        /\ programs'[active].index = Cur.index + 4
        /\ programs'[active].offset = Cur.offset
        /\ links' = links
        /\ Len(programs'[active].program) >= Len(Cur.program)
        /\ \A a \in 0..(Len(programs'[active].program) - 1) :
              IF a = Written
              THEN Cell(programs'[active], a) = Last(log').value
              ELSE Cell(programs'[active], a) = Cell(Cur, a)
        /\ WellFormedOperation =>
              /\ Last(log').index = Address(Cur, 3)
              /\ scenario # "doctest" =>
                    Last(log').value
                        = Arithmetic(Word(Cur) % 100,
                                     Cell(Cur, Address(Cur, 1)),
                                     Cell(Cur, Address(Cur, 2)))]_vars

\* 1007-style comparison done: the doctest program 3,9,7,9,10,9,4,9,99,-1,8
\* given 7 has stored 1 (7 < 8) in cell 9 and stands at index 6
C25_Witness ==
    /\ scenario = "direct"
    /\ code = <<3, 9, 7, 9, 10, 9, 4, 9, 99, -1, 8>>
    /\ active = 1
    /\ programs[1].index = 6
    /\ programs[1].program = <<3, 9, 7, 9, 10, 9, 4, 9, 99, 1, 8>>
    /\ Outputs(1) = <<>>
    /\ Last(log).op = "set" /\ Last(log).index = 9 /\ Last(log).value = 1

\* the running engine completes an iteration on opcode 5 or 6
Jumping ==
    /\ active # 0
    /\ HasWord(Cur)
    /\ LowTwoDigits(Word(Cur)) \in {5, 6}
    /\ active' = active

\* lst[index] of the list memory of 2019/07
ListAt(e, index) == e.program[ListCell(e.program, index) + 1]

\* the value of read operand k of the instruction at the index register:
\* by the addressing rule of 2019/09, and in 2019/07 the operand cell itself
\* in mode 1 and the cell it names otherwise
OperandValue(e, k) ==
    IF e.rev = 9 THEN Cell(e, Address(e, k))
    ELSE IF ModeDigit(Word(e), k) = 1 THEN ListAt(e, e.index + k)
    ELSE ListAt(e, ListAt(e, e.index + k))

\* the word is not negative and the modes of its two read operands are ones
\* the revision defines
WellFormedJump ==
    /\ Word(Cur) >= 0
    /\ Cur.rev = 9 => /\ ModeDigit(Word(Cur), 1) \in {0, 1, 2}
                      /\ ModeDigit(Word(Cur), 2) \in {0, 1, 2}
    /\ Cur.rev = 7 => /\ ModeDigit(Word(Cur), 1) \in {0, 1}
                      /\ ModeDigit(Word(Cur), 2) \in {0, 1}

JumpPosition == <<3, 12, 6, 12, 15, 1, 13, 14, 13, 4, 13, 99, -1, 0, 1, 9>>

JumpImmediate == <<3, 3, 1105, -1, 9, 1101, 0, 0, 12, 4, 12, 99, 1>>

\* ------------------------------------------------------------------------
\* C26: opcode 5 sets the index register to the value of operand 2 when the
\* value of operand 1 is nonzero and moves it forward by 3 otherwise; opcode
\* 6 does the same with the test inverted.  Neither changes the value of a
\* memory cell, the relative base or a channel.  Given x, the programs
\* 3,12,6,12,15,1,13,14,13,4,13,99,-1,0,1,9 and
\* 3,3,1105,-1,9,1101,0,0,12,4,12,99,1 return 0 if x = 0 and 1 otherwise.
\* ------------------------------------------------------------------------
C26_Jumps ==
    /\ [][Jumping =>
            /\ SameValues(programs'[active].program, Cur.program)
            /\ programs'[active].offset = Cur.offset
            /\ links' = links
            /\ WellFormedJump =>
                  programs'[active].index =
                      IF (OperandValue(Cur, 1) # 0) = (Word(Cur) % 100 = 5)
                      THEN OperandValue(Cur, 2)
                      ELSE Cur.index + 3]_vars
    /\ []((FirstValueGiven /\ code \in {JumpPosition, JumpImmediate}) =>
            Answered(IF result.supplied[1] = 0 THEN 0 ELSE 1))

\* run(7) on the position-mode jump program has returned 1
C26_Witness ==
    /\ FirstValueGiven
    /\ code = JumpPosition
    /\ result.supplied = <<7>>
    /\ Answered(1)
    /\ programs[1].program[13] = 7

\* ------------------------------------------------------------------------
\* C27: run_amplifier never calls run on an engine that has halted, and a
\* round in which, or before which, some engine halted is the last one:
\* when it ends run_amplifier starts no further round.
\* ------------------------------------------------------------------------
C27_NoRunAfterHalt ==
    [][scenario = "amplifier" =>
        /\ (active = 0 /\ active' # 0) => ~halted[active']
        /\ (/\ active = 5
            /\ Leaving
            /\ driver.phase = "rounds"
            /\ \E i \in 1..5 : halted'[i]) => driver'.phase # "rounds"]_vars

\* the engine whose output list is the input list of engine i
Upstream(i) == IF i = 1 THEN 5 ELSE i - 1

\* the number of values ever placed in the input list of engine i: those it
\* has taken and those still waiting
Placed(i) == Len(consumed[i]) + Len(Inputs(i))

\* ------------------------------------------------------------------------
\* C28: in run_amplifier a value reaches an input list once: the input list
\* of an engine never received more values than its phase setting, the
\* outputs of the engine upstream and, for engine A, the start value; in
\* the signal loop the only value a run(value) call appends is the start
\* value, given to A in the first round, every other signal being already
\* in the shared list.
\* ------------------------------------------------------------------------
C28_NoDuplicateSignal ==
    /\ [](scenario = "amplifier" =>
            \A i \in 1..5 :
                Placed(i) <= 1 + Len(produced[Upstream(i)]) + (IF i = 1 THEN 1 ELSE 0))
    /\ [][(/\ scenario = "amplifier"
           /\ driver.phase = "rounds"
           /\ active = 0
           /\ active' # 0
           /\ supplied' # None) =>
              /\ active' = 1
              /\ driver.rounds = 0
              /\ supplied' = <<driver.start_value>>]_vars

\* the run call on engine E that ends now ends a round of the signal loop in
\* which nothing happened: every engine is suspended, every input list is
\* empty and no engine has consumed or produced a value since the round began
IdleRoundEnds ==
    /\ scenario = "amplifier"
    /\ driver.phase = "rounds"
    /\ active = 5
    /\ Leaving
    /\ \A i \in 1..5 : status'[i] = "suspend" /\ Inputs(i) = <<>>
    /\ driver.mark = <<consumed', produced'>>

\* ------------------------------------------------------------------------
\* C29: when a round of the signal loop of run_amplifier has passed with
\* every engine suspended on an empty input list and nothing consumed or
\* produced, run_amplifier stops: it does not start another round.
\* ------------------------------------------------------------------------
C29_NoIdleSpinning ==
    [][IdleRoundEnds => driver'.phase # "rounds"]_vars

\* the engine of 2019/09 is about to decode a word that is negative or has,
\* for one of its three operands, a mode digit other than 0, 1 and 2
Malformed ==
    /\ active # 0
    /\ Cur.rev = 9
    /\ Cur.index >= 0
    /\ \/ Word(Cur) < 0
       \/ \E k \in 1..3 : ModeDigit(Word(Cur), k) \notin {0, 1, 2}

\* ------------------------------------------------------------------------
\* C30: a word that is negative, or that has a mode digit other than 0, 1
\* and 2, makes run raise the unrecognized-instruction ValueError at that
\* word: it is not executed, and the memory, the index register, the
\* relative base and the channels are unchanged.
\* ------------------------------------------------------------------------
C30_MalformedRejected ==
    [][Malformed =>
          /\ Leaving
          /\ result'.path = "raise"
          /\ result'.exc = "ValueError"
          /\ programs'[active].index = Cur.index
          /\ programs'[active].offset = Cur.offset
          /\ SameValues(Cur.program, programs'[active].program)
          /\ links' = links]_vars

====
